---- MODULE Spec2Model ----
(***************************************************************************)
(* UserPamAuthenticator (src/src/truenas_authenticator/authenticator.py):  *)
(* the session orchestrator, the conversation bridge (worker thread, two   *)
(* queues, done_event) and the truenas_pypam backend as the tests under    *)
(* src/tests describe it.  One caller drives the public operations; the    *)
(* worker threads of all attempts run concurrently with it.                *)
(***************************************************************************)
EXTENDS Integers, Sequences, FiniteSets, TLC

\* ---------------------------------------------------------------- bounds
\* ConversationThreadState objects (attempts whose worker has not ended or
\* whose state the orchestrator still holds) that exist at the same time
MaxAttempts == 2
\* prompt batches the backend emits during one authenticate() call
MaxPrompts == 2
\* longest prompt batch / response batch
MaxLen == 1

\* ------------------------------------------------------------- constants
\* service names a session may be constructed with
Services == {"login", "sshd"}

\* AuthenticatorStage
AuthenticatorStage ==
    {"START", "AUTH", "OPEN_SESSION", "CLOSE_SESSION", "LOGIN", "LOGOUT"}

\* codes a truenas_pypam.PAMError raised by the backend may carry
PAMErrors == {"PAM_AUTH_ERR", "PAM_CONV_ERR"}
\* an exception of the backend that is no PAMError (ValueError, TypeError)
OtherExc == "other"

None == "None"
Attempts == 1..MaxAttempts

\* the Response DTO's reason: None, a failure text, or a prompt batch
NoReason == [kind |-> "none", a |-> 0, n |-> 0, len |-> 0]
TextReason(k) == [kind |-> k, a |-> 0, n |-> 0, len |-> 0]
Batch(i, k, l) == [kind |-> "prompts", a |-> i, n |-> k, len |-> l]

\* AuthenticatorResponse(stage, code, reason, user_info)
AuthenticatorResponse(st, code, reason, info) ==
    [stage |-> st, code |-> code, reason |-> reason, user_info |-> info]
NoResp == AuthenticatorResponse("none", "none", NoReason, FALSE)

\* AuthenticatorState(service=...): a fresh Session State
AuthenticatorState(svc) ==
    [service |-> svc, stage |-> "START", login_at |-> None, passwd |-> None]

\* ConversationThreadState of an attempt, with its worker's position
\*   wpc       position of _auth_thread_worker / _conv_callback
\*   done      done_event
\*   shut      input_queue and output_queue have been shut down
\*   inq, outq input_queue (response batches), output_queue (prompt batches)
\*   exception, pam_context   the result slots
\*   nprompts  prompt batches put on output_queue since it was created
\*   pend      length of the batch the callback is serving
\*   ans       what the callback handed the backend, until the backend acts
\*   outcome   what ctx.authenticate() / get_context did
ConversationThreadState ==
    [wpc |-> "ctx", done |-> FALSE, shut |-> FALSE, inq |-> <<>>,
     outq |-> <<>>, exception |-> None, pam_context |-> FALSE,
     nprompts |-> 0, pend |-> 0, ans |-> "none", outcome |-> "none"]
\* no such object: not created yet, or nothing refers to it any more (the
\* orchestrator has dropped it and its worker has ended)
NotCreated == [ConversationThreadState EXCEPT !.wpc = "none"]

VARIABLES
    kind,           \* the class of the session object; never changes
    password,       \* SimpleAuthenticator's self.password, or None
    state,          \* self.state: [service, stage, login_at, passwd]
    ctx,            \* self.ctx: 0 (None) or the attempt whose context it is
    thread_state,   \* self._thread_state: 0 (None) or an attempt
    auth_thread,    \* self._auth_thread: 0 (None) or an attempt's worker
    att,            \* every attempt's ConversationThreadState and worker
    sessOpen,       \* the backend has a session open on the context ctx
    pc,             \* the caller: "idle", "wait" (_wait_for_auth_result),
                    \*   "join" (end() joining the worker), "deleted" (the
                    \*   finalizer has run: self.state is None, the object
                    \*   can do nothing more; state keeps what it held)
    op,             \* the public operation running or last run
    joinFor,        \* who called the end() that is joining
    resp,           \* the response the last operation returned
    raised,         \* the error the last operation raised, or None
    called,         \* the backend call the last operation made, or None
    hist            \* what has happened on the context since the last reset:
                    \*   auth    ctx.authenticate() has returned to the caller
                    \*   acct    ctx.acct_mgmt() has returned since then
                    \*   opened  ctx.open_session() has returned since then

vars == <<kind, password, state, ctx, thread_state, auth_thread, att, sessOpen, pc, op,
          joinFor, resp, raised, called, hist>>

\* the two session classes: the stepping orchestrator and its direct
\* specialization
Classes == {"UserPamAuthenticator", "SimpleAuthenticator"}

\* the password a SimpleAuthenticator is constructed with
Secret == "secret"

\* nothing has happened on a context yet
NoHist == [auth |-> FALSE, acct |-> FALSE, opened |-> FALSE]

Init ==
    /\ kind \in Classes
    /\ password = IF kind = "SimpleAuthenticator" THEN Secret ELSE None
    /\ state \in {AuthenticatorState(s) : s \in Services}
    /\ ctx = 0
    /\ thread_state = 0
    /\ auth_thread = 0
    /\ att = [i \in Attempts |-> NotCreated]
    /\ sessOpen = FALSE
    /\ pc = "idle"
    /\ op = "init"
    /\ joinFor = None
    /\ resp = NoResp
    /\ raised = None
    /\ called = None
    /\ hist = NoHist

\* ------------------------------------------------------------- helpers
\* variant of check_stage: once authenticated, every stage passes
check_stage_AnyAuthenticatedStage(expected) ==
    state.stage = expected \/ state.stage \in {"LOGIN", "LOGOUT"}

\* variant of check_stage: logout and close_session are let through from LOGIN
check_stage_LogoutFromLogin(expected) ==
    state.stage = expected \/ (expected = "LOGOUT" /\ state.stage = "LOGIN")

check_stage(expected) == state.stage = expected

is_alive(i) == att[i].wpc \notin {"none", "exited"}

\* variant of the guard: only a worker that is still running counts
AlreadyInProgress_LiveWorkerOnly == auth_thread # 0 /\ is_alive(auth_thread)

\* the guard of auth_init
AlreadyInProgress == thread_state # 0 \/ auth_thread # 0

\* an exception of the backend call c that operation o does not catch: the
\* caller sees the error and nothing else, and nothing of the session changes
Propagates(o, err, c) ==
    /\ op' = o
    /\ raised' = err
    /\ resp' = NoResp
    /\ called' = c
    /\ UNCHANGED <<kind, password, state, ctx, thread_state, auth_thread, att, sessOpen, pc,
                   joinFor, hist>>

\* a raise out of a public operation, after the backend call c (or None):
\* the caller sees the error and nothing else, and nothing of the session
\* changes
RaiseAfter(err, c) ==
    /\ op' = "raised"
    /\ raised' = err
    /\ resp' = NoResp
    /\ called' = c
    /\ UNCHANGED <<kind, password, state, ctx, thread_state, auth_thread, att, sessOpen, pc,
                   joinFor, hist>>

\* a raise before any backend call
Raise(err) == RaiseAfter(err, None)

\* the RuntimeError of check_stage names the expected stage
StageError(expected) == "stage:" \o expected

\* variant: the queues are emptied but not shut down
EndThreadState_NoShutdown(a) ==
    IF thread_state = 0 THEN a
    ELSE IF ~is_alive(thread_state)
    THEN [a EXCEPT ![thread_state] = NotCreated]
    ELSE [a EXCEPT ![thread_state].done = TRUE,
                   ![thread_state].inq = <<>>,
                   ![thread_state].outq = <<>>,
                   ![thread_state].nprompts = 0,
                   ![thread_state].pam_context = FALSE]

\* what end() does to the attempt's ConversationThreadState after the join
EndThreadState(a) ==
    IF thread_state = 0 THEN a
    ELSE IF ~is_alive(thread_state)
    THEN [a EXCEPT ![thread_state] = NotCreated]
    ELSE [a EXCEPT ![thread_state].done = TRUE,
                   ![thread_state].shut = TRUE,
                   ![thread_state].inq = <<>>,
                   ![thread_state].outq = <<>>,
                   ![thread_state].nprompts = 0,
                   ![thread_state].pam_context = FALSE]

\* variant of the reset: self.ctx is not released
EndReset_KeepsCtx ==
    /\ state' = AuthenticatorState(state.service)
    /\ ctx' = ctx
    /\ thread_state' = 0
    /\ auth_thread' = 0
    /\ sessOpen' = sessOpen
    /\ hist' = NoHist

\* variant of the reset: the stage is not reset
EndReset_KeepsStage ==
    /\ state' = [state EXCEPT !.login_at = None]
    /\ ctx' = 0
    /\ thread_state' = 0
    /\ auth_thread' = 0
    /\ sessOpen' = FALSE
    /\ hist' = NoHist

\* variant of the reset: self._auth_thread is not cleared
EndReset_KeepsWorkerHandle ==
    /\ state' = AuthenticatorState(state.service)
    /\ ctx' = 0
    /\ thread_state' = 0
    /\ auth_thread' = auth_thread
    /\ sessOpen' = FALSE
    /\ hist' = NoHist

\* end(), from the reset of self.state on
EndReset ==
    /\ state' = AuthenticatorState(state.service)
    /\ ctx' = 0
    /\ thread_state' = 0
    /\ auth_thread' = 0
    /\ sessOpen' = FALSE
    /\ hist' = NoHist

\* end() when it does not have to join a live worker
EndNow ==
    /\ att' = EndThreadState(att)
    /\ EndReset

\* ------------------------------------------------------------- auth_init
\* where the ConversationThreadState of a new attempt goes
FreeSlots == {i \in Attempts : att[i].wpc = "none"}
NewAttempt == CHOOSE i \in FreeSlots : \A j \in FreeSlots : i <= j

AuthInit ==
    /\ kind = "UserPamAuthenticator"
    /\ pc = "idle"
    /\ IF AlreadyInProgress
       THEN Raise("already_in_progress")
       ELSE IF ~check_stage("START")
       THEN Raise(StageError("START"))
       ELSE /\ FreeSlots # {}
            /\ att' = [att EXCEPT ![NewAttempt] = ConversationThreadState]
            /\ thread_state' = NewAttempt
            /\ auth_thread' = NewAttempt
            /\ state' = [state EXCEPT !.stage = "AUTH"]
            /\ pc' = "wait"
            /\ op' = "auth_init"
            /\ resp' = NoResp
            /\ raised' = None
            /\ called' = None
            /\ UNCHANGED <<kind, password, ctx, sessOpen, joinFor, hist>>

\* --------------------------------------------------------- the worker
wrest == <<kind, password, state, ctx, thread_state, auth_thread, sessOpen, pc, op,
           joinFor, resp, raised, called, hist>>

\* variant: the failure ends the worker without being stored
StoreException_NotStored(r, e) ==
    [r EXCEPT !.wpc = "fin", !.outcome = e, !.ans = "none"]

\* the worker stores an exception (except clause)
StoreException(r, e) ==
    [r EXCEPT !.wpc = "fin", !.exception = e, !.outcome = e, !.ans = "none"]

\* variant: ctx.authenticate() returned but the context is not stored
StoreContext_SlotUnfilled(r) ==
    [r EXCEPT !.wpc = "fin", !.outcome = "accept", !.ans = "none"]

\* the worker stores the context (ctx.authenticate() returned)
StoreContext(r) ==
    [r EXCEPT !.wpc = "fin", !.pam_context = TRUE, !.outcome = "accept",
              !.ans = "none"]

\* _conv_callback returns a response batch to the backend
CallbackReturns(r, how) == [r EXCEPT !.wpc = "auth", !.ans = how, !.pend = 0]

\* the backend's check of the callback's return value against the prompts
ReplyKind(r, responses) == IF responses.len = r.pend THEN "ok" ELSE "bad"

\* [None] * len(messages)
NoAnswers(r) == [len |-> r.pend]

\* the callback gives up waiting: return [None] * len(messages)
CancelReply(r) == CallbackReturns(r, ReplyKind(r, NoAnswers(r)))

\* the worker's last steps on a ConversationThreadState the orchestrator has
\* dropped are seen by nobody: the object is gone with the worker
Last(i, r) == IF thread_state = i THEN r ELSE NotCreated

\* how the backend reports an exception raised inside the conversation function
CallbackExc == {"PAM_CONV_ERR", OtherExc}

\* truenas_pypam.get_context(**kwargs) and ctx.set_env(...)
WGetContext(i) ==
    /\ att[i].wpc = "ctx"
    /\ \E o \in {"ok"} \cup PAMErrors \cup {OtherExc} :
         att' = [att EXCEPT ![i] =
                   IF o = "ok" THEN [@ EXCEPT !.wpc = "auth"]
                   ELSE Last(i, StoreException(@, o))]
    /\ UNCHANGED wrest

\* ctx.authenticate() returns: the backend accepts
WAuthAccept(i) ==
    /\ att[i].wpc = "auth"
    /\ att[i].ans # "bad"
    /\ att' = [att EXCEPT ![i] = Last(i, StoreContext(@))]
    /\ UNCHANGED wrest

\* ctx.authenticate() raises a PAMError: the backend rejects
WAuthReject(i) ==
    /\ att[i].wpc = "auth"
    /\ att[i].ans # "bad"
    /\ \E e \in PAMErrors : att' = [att EXCEPT ![i] = Last(i, StoreException(@, e))]
    /\ UNCHANGED wrest

\* ctx.authenticate() raises ValueError: the callback returned the wrong
\* number of responses
WAuthBadReply(i) ==
    /\ att[i].wpc = "auth"
    /\ att[i].ans = "bad"
    /\ att' = [att EXCEPT ![i] =
                 Last(i, [StoreException(@, OtherExc)
                            EXCEPT !.outcome = "bad_reply"])]
    /\ UNCHANGED wrest

\* the backend emits a prompt batch: _conv_callback up to output_queue.put
WEmitPrompt(i) ==
    /\ att[i].wpc = "auth"
    /\ att[i].ans # "bad"
    /\ att[i].nprompts < MaxPrompts
    /\ IF att[i].shut
       THEN \E e \in CallbackExc : att' = [att EXCEPT ![i] = Last(i, StoreException(@, e))]
       ELSE \E l \in 1..MaxLen :
              att' = [att EXCEPT ![i].wpc = "conv",
                                 ![i].ans = "none",
                                 ![i].nprompts = @ + 1,
                                 ![i].pend = l,
                                 ![i].outq = Append(@, Batch(i, att[i].nprompts + 1, l))]
    /\ UNCHANGED wrest

\* variant: the callback's loop does not test done_event
WConvCheck_IgnoresFlag(i) ==
    /\ att[i].wpc = "conv"
    /\ att' = [att EXCEPT ![i].wpc = "get"]
    /\ UNCHANGED wrest

\* _conv_callback: while not private_data.done_event.is_set()
WConvCheck(i) ==
    /\ att[i].wpc = "conv"
    /\ att' = [att EXCEPT ![i] =
                 IF @.done THEN CancelReply(@) ELSE [@ EXCEPT !.wpc = "get"]]
    /\ UNCHANGED wrest

\* _conv_callback: private_data.input_queue.get(timeout=1.0)
WConvGet(i) ==
    /\ att[i].wpc = "get"
    /\ IF att[i].inq # <<>>
       THEN att' = [att EXCEPT ![i] =
                      [CallbackReturns(@, ReplyKind(@, Head(@.inq)))
                         EXCEPT !.inq = Tail(@)]]
       ELSE IF att[i].shut
       THEN \E e \in CallbackExc : att' = [att EXCEPT ![i] = Last(i, StoreException(@, e))]
       ELSE att' = [att EXCEPT ![i].wpc = "conv"]
    /\ UNCHANGED wrest

\* finally: thread_state.done_event.set(), and the thread ends
WFinally(i) ==
    /\ att[i].wpc = "fin"
    /\ att' = [att EXCEPT ![i] =
                 Last(i, [@ EXCEPT !.done = TRUE, !.wpc = "exited"])]
    /\ UNCHANGED wrest

Worker(i) ==
    \/ WGetContext(i)
    \/ WAuthAccept(i)
    \/ WAuthReject(i)
    \/ WAuthBadReply(i)
    \/ WEmitPrompt(i)
    \/ WConvCheck(i)
    \/ WConvGet(i)
    \/ WFinally(i)

\* ------------------------------------------------ _wait_for_auth_result
\* variant: every stored exception is collapsed to PAM_SYSTEM_ERR
ExcCode_AlwaysSystemErr(e) == "PAM_SYSTEM_ERR"

\* variant: an exception that is no PAMError is reported as PAM_AUTH_ERR
ExcCode_OtherAsAuthErr(e) == IF e \in PAMErrors THEN e ELSE "PAM_AUTH_ERR"

\* code of the terminal response for a stored exception
ExcCode(e) == IF e \in PAMErrors THEN e ELSE "PAM_SYSTEM_ERR"

\* variant: a terminal success moves straight to LOGOUT
StageAfterAuth_SkipsLogin == "LOGOUT"

\* the stage a terminal success moves the session to
StageAfterAuth == "LOGIN"

\* variant: the timeout is reported as an authentication error
TimeoutResponse_AuthErr ==
    AuthenticatorResponse("AUTH", "PAM_AUTH_ERR", TextReason("timeout"), FALSE)

\* the response of the timeout branch
TimeoutResponse ==
    AuthenticatorResponse("AUTH", "PAM_SYSTEM_ERR", TextReason("timeout"), FALSE)

\* variant: every stored exception is reported as a failed authentication
FailureResponse_AuthErr(e) ==
    AuthenticatorResponse("AUTH", "PAM_AUTH_ERR", TextReason("error"), FALSE)

\* the response for a stored exception
FailureResponse(e) ==
    AuthenticatorResponse("AUTH", ExcCode(e), TextReason("error"), FALSE)

\* variant: the terminal success carries no user_info
SuccessResponse_NoUserInfo ==
    AuthenticatorResponse("AUTH", "PAM_SUCCESS", NoReason, FALSE)

\* the response of a terminal success, with user_info
SuccessResponse ==
    AuthenticatorResponse("AUTH", "PAM_SUCCESS", NoReason, TRUE)

\* variant: the batch taken off output_queue is not put in the response
ConvAgainResponse_NoMessages(messages) ==
    AuthenticatorResponse("AUTH", "PAM_CONV_AGAIN", NoReason, FALSE)

\* the response carrying a prompt batch
ConvAgainResponse(messages) ==
    AuthenticatorResponse("AUTH", "PAM_CONV_AGAIN", messages, FALSE)

\* variant: the worker's context is not taken over
PamContextOf_NotTaken(i) == 0

\* self._thread_state.pam_context: the context attempt i's worker stored, or
\* None
PamContextOf(i) == IF att[i].pam_context THEN i ELSE 0

\* variant: a stored exception is reported without calling end()
WaitDone_FailureKeepsBridge ==
    /\ pc = "wait"
    /\ att[thread_state].done
    /\ ~is_alive(auth_thread)
    /\ IF att[thread_state].exception # None
       THEN /\ resp' = FailureResponse(att[thread_state].exception)
            /\ UNCHANGED <<state, ctx, thread_state, auth_thread, att, sessOpen, hist>>
       ELSE /\ ctx' = PamContextOf(thread_state)
            /\ state' = [state EXCEPT !.stage = StageAfterAuth]
            /\ resp' = SuccessResponse
            /\ hist' = [NoHist EXCEPT !.auth = TRUE]
            /\ UNCHANGED <<thread_state, auth_thread, att, sessOpen>>
    /\ pc' = "idle"
    /\ UNCHANGED <<kind, password, op, joinFor, raised, called>>

\* done_event is set: join the worker and read the terminal outcome
WaitDone ==
    /\ pc = "wait"
    /\ att[thread_state].done
    /\ ~is_alive(auth_thread)
    /\ IF att[thread_state].exception # None
       THEN /\ EndNow
            /\ resp' = FailureResponse(att[thread_state].exception)
       ELSE /\ ctx' = PamContextOf(thread_state)
            /\ state' = [state EXCEPT !.stage = StageAfterAuth]
            /\ resp' = SuccessResponse
            /\ hist' = [NoHist EXCEPT !.auth = TRUE]
            /\ UNCHANGED <<thread_state, auth_thread, att, sessOpen>>
    /\ pc' = "idle"
    /\ UNCHANGED <<kind, password, op, joinFor, raised, called>>

\* the loop's timeout check fires: end(), up to the join of the worker
WaitTimeout ==
    /\ pc = "wait"
    /\ ~att[thread_state].done
    /\ att' = [att EXCEPT ![thread_state].done = TRUE]
    /\ pc' = "join"
    /\ joinFor' = "timeout"
    /\ UNCHANGED <<kind, password, state, ctx, thread_state, auth_thread, sessOpen, op,
                   resp, raised, called, hist>>

\* variant: the prompt batch is read but left on output_queue
WaitPrompt_LeavesBatch ==
    /\ pc = "wait"
    /\ ~att[thread_state].done
    /\ att[thread_state].outq # <<>>
    /\ resp' = ConvAgainResponse(Head(att[thread_state].outq))
    /\ pc' = "idle"
    /\ UNCHANGED <<kind, password, state, ctx, thread_state, auth_thread, att, sessOpen, op,
                   joinFor, raised, called, hist>>

\* variant: the step returns PAM_CONV_AGAIN without waiting for a batch
WaitPrompt_ReturnsEarly ==
    /\ pc = "wait"
    /\ ~att[thread_state].done
    /\ IF att[thread_state].outq # <<>>
       THEN /\ resp' = ConvAgainResponse(Head(att[thread_state].outq))
            /\ att' = [att EXCEPT ![thread_state].outq = Tail(@)]
       ELSE /\ resp' = ConvAgainResponse(NoReason)
            /\ att' = att
    /\ pc' = "idle"
    /\ UNCHANGED <<kind, password, state, ctx, thread_state, auth_thread, sessOpen, op,
                   joinFor, raised, called, hist>>

\* output_queue.get(timeout=0.1) returns a prompt batch
WaitPrompt ==
    /\ pc = "wait"
    /\ ~att[thread_state].done
    /\ att[thread_state].outq # <<>>
    /\ resp' = ConvAgainResponse(Head(att[thread_state].outq))
    /\ att' = [att EXCEPT ![thread_state].outq = Tail(@)]
    /\ pc' = "idle"
    /\ UNCHANGED <<kind, password, state, ctx, thread_state, auth_thread, sessOpen, op,
                   joinFor, raised, called, hist>>

\* --------------------------------------------------------- auth_continue
\* variant of the guard: only a session that never authenticated is refused
NotInAuthStage_OnlyBeforeAuth == state.stage = "START"

\* the first guard of auth_continue
NotInAuthStage == state.stage # "AUTH"

\* variant: the responses go to every running worker, not to the current
\* attempt's input_queue only
AuthContinue_SharedChannel(responses) ==
    /\ kind = "UserPamAuthenticator"
    /\ pc = "idle"
    /\ IF NotInAuthStage
       THEN Raise("not_in_auth")
       ELSE IF thread_state = 0 \/ auth_thread = 0
       THEN Raise("no_auth_in_progress")
       ELSE /\ att' = [j \in Attempts |->
                         IF is_alive(j) THEN [att[j] EXCEPT !.inq = Append(@, responses)]
                         ELSE att[j]]
            /\ pc' = "wait"
            /\ op' = "auth_continue"
            /\ resp' = NoResp
            /\ raised' = None
            /\ called' = None
            /\ UNCHANGED <<kind, password, state, ctx, thread_state, auth_thread, sessOpen,
                           joinFor, hist>>

\* auth_continue(responses)
AuthContinue(responses) ==
    /\ kind = "UserPamAuthenticator"
    /\ pc = "idle"
    /\ IF NotInAuthStage
       THEN Raise("not_in_auth")
       ELSE IF thread_state = 0 \/ auth_thread = 0
       THEN Raise("no_auth_in_progress")
       ELSE /\ att' = [att EXCEPT ![thread_state].inq = Append(@, responses)]
            /\ pc' = "wait"
            /\ op' = "auth_continue"
            /\ resp' = NoResp
            /\ raised' = None
            /\ called' = None
            /\ UNCHANGED <<kind, password, state, ctx, thread_state, auth_thread, sessOpen,
                           joinFor, hist>>

\* ------------------------------------------------------------------- end
\* end(), called by the caller, up to the join of a live worker
End ==
    /\ pc = "idle"
    /\ op' = "end"
    /\ raised' = None
    /\ called' = None
    /\ resp' = NoResp
    /\ IF thread_state # 0 /\ auth_thread # 0 /\ is_alive(auth_thread)
       THEN /\ att' = [att EXCEPT ![thread_state].done = TRUE]
            /\ pc' = "join"
            /\ joinFor' = "end"
            /\ UNCHANGED <<kind, password, state, ctx, thread_state, auth_thread, sessOpen,
                           hist>>
       ELSE /\ EndNow
            /\ UNCHANGED <<kind, password, pc, joinFor>>

\* variant: the timeout branch returns its response without the rest of end()
EndJoin_TimeoutKeepsBridge ==
    /\ pc = "join"
    /\ IF joinFor = "timeout"
       THEN UNCHANGED <<state, ctx, thread_state, auth_thread, att, sessOpen, hist>>
       ELSE EndNow
    /\ resp' = IF joinFor = "timeout" THEN TimeoutResponse ELSE NoResp
    /\ pc' = IF joinFor = "__del__" THEN "deleted" ELSE "idle"
    /\ joinFor' = None
    /\ UNCHANGED <<kind, password, op, raised, called>>

\* variant: join() without a timeout, end() goes on only once the worker has ended
EndJoin_JoinsWithoutTimeout ==
    /\ pc = "join"
    /\ ~is_alive(auth_thread)
    /\ EndNow
    /\ resp' = IF joinFor = "timeout" THEN TimeoutResponse ELSE NoResp
    /\ pc' = IF joinFor = "__del__" THEN "deleted" ELSE "idle"
    /\ joinFor' = None
    /\ UNCHANGED <<kind, password, op, raised, called>>

\* join(timeout=2.0) returns, the worker has ended or not; the rest of end()
EndJoin ==
    /\ pc = "join"
    /\ EndNow
    /\ resp' = IF joinFor = "timeout" THEN TimeoutResponse ELSE NoResp
    /\ pc' = IF joinFor = "__del__" THEN "deleted" ELSE "idle"
    /\ joinFor' = None
    /\ UNCHANGED <<kind, password, op, raised, called>>

\* ------------------------------------------------- the backend context
\* ctx.acct_mgmt(): returns, or raises a PAMError
AcctOutcomes == {"PAM_SUCCESS"} \cup PAMErrors

\* ctx.open_session(): ValueError when a session is already opened on the
\* context, else returns or raises a PAMError
OpenOutcomes ==
    IF sessOpen THEN {"ValueError"} ELSE {"PAM_SUCCESS"} \cup PAMErrors

\* ctx.close_session(): ValueError when no session is opened, else returns or
\* raises a PAMError
CloseOutcomes ==
    IF sessOpen THEN {"PAM_SUCCESS"} \cup PAMErrors ELSE {"ValueError"}

\* the reason of a response for a backend outcome
ReasonOf(code) == IF code = "PAM_SUCCESS" THEN NoReason ELSE TextReason("error")

\* a public operation returns r, having called the backend's c
Return(o, r, c) ==
    /\ op' = o
    /\ resp' = r
    /\ raised' = None
    /\ called' = c
    /\ UNCHANGED <<kind, password, pc, joinFor>>

\* ---------------------------------------------------- account_management
\* variant: account_management's response is tagged with the stage it ran in
AcctStageTag_Login == "LOGIN"

\* the stage tag of account_management's response
AcctStageTag == "AUTH"

AccountManagement ==
    /\ pc = "idle"
    /\ IF ~check_stage("LOGIN")
       THEN Raise(StageError("LOGIN"))
       ELSE IF ctx = 0
       THEN Raise("no_ctx")
       ELSE \E code \in AcctOutcomes :
              /\ Return("account_management",
                        AuthenticatorResponse(AcctStageTag, code, ReasonOf(code), FALSE),
                        "acct_mgmt")
              /\ hist' = [hist EXCEPT !.acct = @ \/ code = "PAM_SUCCESS"]
              /\ UNCHANGED <<kind, password, state, ctx, thread_state, auth_thread, att, sessOpen>>

\* ----------------------------------------------------------- open_session
OpenSession ==
    /\ pc = "idle"
    /\ IF ~check_stage("LOGIN")
       THEN Raise(StageError("LOGIN"))
       ELSE IF ctx = 0
       THEN Raise("no_ctx")
       ELSE \E code \in OpenOutcomes :
              IF code = "ValueError"
              THEN Propagates("open_session", "ValueError", "open_session")
              ELSE /\ Return("open_session",
                             AuthenticatorResponse("OPEN_SESSION", code, ReasonOf(code), FALSE),
                             "open_session")
                   /\ sessOpen' = (code = "PAM_SUCCESS")
                   /\ hist' = [hist EXCEPT !.opened = @ \/ code = "PAM_SUCCESS"]
                   /\ UNCHANGED <<kind, password, state, ctx, thread_state, auth_thread, att>>

\* ---------------------------------------------------------- close_session
CloseSession ==
    /\ pc = "idle"
    /\ IF ~check_stage("LOGOUT")
       THEN Raise(StageError("LOGOUT"))
       ELSE IF ctx = 0
       THEN Raise("no_ctx")
       ELSE \E code \in CloseOutcomes :
              IF code = "ValueError"
              THEN Propagates("close_session", "ValueError", "close_session")
              ELSE /\ Return("close_session",
                             AuthenticatorResponse("CLOSE_SESSION", code, ReasonOf(code), FALSE),
                             "close_session")
                   /\ sessOpen' \in (IF code = "PAM_SUCCESS" THEN {FALSE} ELSE BOOLEAN)
                   /\ UNCHANGED <<kind, password, state, ctx, thread_state, auth_thread, att, hist>>

\* ----------------------------------------------------------------- login
\* variant: login() stores the transient OPEN_SESSION stage
LoggedIn_TransientStage(st) ==
    [st EXCEPT !.login_at = "T", !.stage = "OPEN_SESSION"]

\* variant: login() moves the stage but records no login time
LoggedIn_NoTimestamp(st) == [st EXCEPT !.stage = "LOGOUT"]

\* the Session State after a successful login()
LoggedIn(st) == [st EXCEPT !.login_at = "T", !.stage = "LOGOUT"]

Login ==
    /\ pc = "idle"
    /\ IF ~check_stage("LOGIN")
       THEN Raise(StageError("LOGIN"))
       ELSE IF ctx = 0
       THEN Raise("no_ctx")
       ELSE \E code \in OpenOutcomes :
              IF code = "ValueError"
              THEN Propagates("login", "ValueError", "open_session")
              ELSE IF code # "PAM_SUCCESS"
              THEN /\ Return("login",
                             AuthenticatorResponse("OPEN_SESSION", code, ReasonOf(code), FALSE),
                             "open_session")
                   /\ EndNow
              ELSE /\ Return("login",
                             AuthenticatorResponse("LOGIN", "PAM_SUCCESS", NoReason, FALSE),
                             "open_session")
                   /\ state' = LoggedIn(state)
                   /\ sessOpen' = TRUE
                   /\ hist' = [hist EXCEPT !.opened = TRUE]
                   /\ UNCHANGED <<ctx, thread_state, auth_thread, att>>

\* ---------------------------------------------------------------- logout
Logout ==
    /\ pc = "idle"
    /\ IF ~check_stage("LOGOUT")
       THEN Raise(StageError("LOGOUT"))
       ELSE IF ctx = 0
       THEN Raise("no_ctx")
       ELSE \E code \in CloseOutcomes :
              IF code = "ValueError"
              THEN Propagates("logout", "ValueError", "close_session")
              ELSE /\ Return("logout",
                             AuthenticatorResponse("LOGOUT", code, ReasonOf(code), FALSE),
                             "close_session")
                   /\ EndNow

\* --------------------------------------------------------------- __del__
\* variant: the finalizer runs end() in every stage, without the logout()
Del_EndOnly ==
    /\ pc = "idle"
    /\ op' = "__del__"
    /\ raised' = None
    /\ resp' = NoResp
    /\ UNCHANGED <<kind, password>>
    /\ called' = None
    /\ IF thread_state # 0 /\ auth_thread # 0 /\ is_alive(auth_thread)
       THEN /\ att' = [att EXCEPT ![thread_state].done = TRUE]
            /\ pc' = "join"
            /\ joinFor' = "__del__"
            /\ UNCHANGED <<state, ctx, thread_state, auth_thread, sessOpen, hist>>
       ELSE /\ EndNow
            /\ pc' = "deleted"
            /\ joinFor' = joinFor

\* the finalizer: in stage LOGOUT logout() with every exception swallowed,
\* else end(); then self.state = None
Del ==
    /\ pc = "idle"
    /\ op' = "__del__"
    /\ raised' = None
    /\ resp' = NoResp
    /\ UNCHANGED <<kind, password>>
    /\ IF state.stage = "LOGOUT"
       THEN /\ pc' = "deleted"
            /\ joinFor' = joinFor
            /\ IF ctx = 0
               THEN /\ called' = None
                    /\ UNCHANGED <<state, ctx, thread_state, auth_thread, att,
                                   sessOpen, hist>>
               ELSE /\ called' = "close_session"
                    /\ \E code \in CloseOutcomes :
                         IF code = "ValueError"
                         THEN UNCHANGED <<state, ctx, thread_state, auth_thread,
                                          att, sessOpen, hist>>
                         ELSE EndNow
       ELSE /\ called' = None
            /\ IF thread_state # 0 /\ auth_thread # 0 /\ is_alive(auth_thread)
               THEN /\ att' = [att EXCEPT ![thread_state].done = TRUE]
                    /\ pc' = "join"
                    /\ joinFor' = "__del__"
                    /\ UNCHANGED <<state, ctx, thread_state, auth_thread,
                                   sessOpen, hist>>
               ELSE /\ EndNow
                    /\ pc' = "deleted"
                    /\ joinFor' = joinFor

\* --------------------------------------------------- SimpleAuthenticator
\* variant: the context of an accepted authentication is not kept, self.ctx
\* stays as it was
DirectContext_NotKept == ctx

\* the backend context of a direct authentication belongs to no attempt
DirectContext == MaxAttempts + 1

\* variant: a rejected direct authentication asks for more responses
SimpleResponse_ConvAgain(o) ==
    IF o = "accept" THEN SuccessResponse
    ELSE ConvAgainResponse(Batch(0, 1, 1))

\* the response of SimpleAuthenticator.auth_init for the outcome of
\* ctx.authenticate()
SimpleResponse(o) ==
    IF o = "accept" THEN SuccessResponse ELSE FailureResponse(o)

\* a bool returned by an operation, in the shape of a response
BoolResult(b) == [stage |-> "bool", code |-> "none", reason |-> NoReason,
                  user_info |-> b]

\* variant: self.password is left as it is
PasswordAfterAuth_Kept == password

\* finally: self.password = None
PasswordAfterAuth == None

\* the body of SimpleAuthenticator.auth_init: get_context, set_env and
\* authenticate on the caller's thread, _conv_callback_simple answering every
\* prompt; asBool: the response is reduced to resp.code == PAM_SUCCESS, as
\* authenticate_simple does
DirectAuth(o, asBool) ==
    /\ pc = "idle"
    /\ IF ~check_stage("START")
       THEN Raise(StageError("START"))
       ELSE \E g \in {"ok"} \cup PAMErrors \cup {OtherExc} :
              IF g # "ok"
              THEN Propagates(o, g, "get_context")
              ELSE \E a \in {"accept"} \cup PAMErrors \cup {OtherExc} :
                     /\ op' = o
                     /\ resp' = IF asBool
                                THEN BoolResult(SimpleResponse(a).code = "PAM_SUCCESS")
                                ELSE SimpleResponse(a)
                     /\ raised' = None
                     /\ called' = "authenticate"
                     /\ password' = PasswordAfterAuth
                     /\ UNCHANGED <<kind, pc, joinFor>>
                     /\ IF a = "accept"
                        THEN /\ ctx' = DirectContext
                             /\ state' = [state EXCEPT !.stage = StageAfterAuth]
                             /\ hist' = [NoHist EXCEPT !.auth = TRUE]
                             /\ UNCHANGED <<thread_state, auth_thread, att,
                                            sessOpen>>
                        ELSE UNCHANGED <<state, ctx, thread_state, auth_thread,
                                         att, sessOpen, hist>>

\* SimpleAuthenticator.auth_init
SimpleAuthInit ==
    /\ kind = "SimpleAuthenticator"
    /\ DirectAuth("auth_init", FALSE)

\* SimpleAuthenticator.authenticate_simple
AuthenticateSimple ==
    /\ kind = "SimpleAuthenticator"
    /\ DirectAuth("authenticate_simple", TRUE)

\* SimpleAuthenticator.auth_continue: NotImplementedError, or TypeError when
\* it is called with the responses the base class takes
SimpleAuthContinue ==
    /\ kind = "SimpleAuthenticator"
    /\ pc = "idle"
    /\ \E e \in {"NotImplementedError", "TypeError"} : Raise(e)

\* ======================================================= the claims
session == <<state, ctx, thread_state, auth_thread, att, sessOpen>>

Failure(r) == r.code \notin {"none", "PAM_SUCCESS", "PAM_CONV_AGAIN"}

\* C1: on a UserPamAuthenticator every change of state.stage is START->AUTH,
\* AUTH->LOGIN, LOGIN->LOGOUT or a reset to START
C1_StageMoves ==
    [][(kind = "UserPamAuthenticator" /\ state'.stage # state.stage) =>
         \/ <<state.stage, state'.stage>>
              \in {<<"START", "AUTH">>, <<"AUTH", "LOGIN">>, <<"LOGIN", "LOGOUT">>}
         \/ state'.stage = "START"]_vars

C1_Witness ==
    /\ kind = "UserPamAuthenticator"
    /\ state.stage = "LOGOUT"
    /\ state.login_at # None

\* C2: state.stage is always one of START, AUTH, LOGIN, LOGOUT; OPEN_SESSION
\* and CLOSE_SESSION appear only as the stage of a returned response
C2_DurableStages ==
    state.stage \in AuthenticatorStage \ {"OPEN_SESSION", "CLOSE_SESSION"}

C2_Witness ==
    /\ resp.stage \in {"OPEN_SESSION", "CLOSE_SESSION"}
    /\ state.stage \in {"LOGIN", "LOGOUT"}

\* C3: auth_init() while the stage is AUTH, LOGIN or LOGOUT raises
\* "Authentication already in progress", starts no worker and leaves the
\* stage, the ConversationThreadState and ctx unchanged
C3_SecondAuthInit ==
    [][(AuthInit /\ state.stage \in {"AUTH", "LOGIN", "LOGOUT"}) =>
         /\ raised' = "already_in_progress"
         /\ UNCHANGED session]_vars

C3_Witness ==
    /\ raised = "already_in_progress"
    /\ state.stage = "AUTH"
    /\ is_alive(auth_thread)

\* C4: auth_continue(responses) while the stage is not AUTH raises "Not in
\* AUTH stage", puts nothing on input_queue and changes no state
C4_AuthContinueOutsideAuth ==
    [][((\E l \in 0..MaxLen : AuthContinue([len |-> l])) /\ state.stage # "AUTH") =>
         /\ raised' = "not_in_auth"
         /\ UNCHANGED session]_vars

C4_Witness == raised = "not_in_auth" /\ state.stage = "LOGIN"

\* a step of auth_init / auth_continue returns to the caller
StepReturns(o) == op = o /\ pc # "idle" /\ pc' = "idle"

\* the response that hands the first prompt batch of the attempt to the caller
FirstBatchReturned ==
    /\ resp'.stage = "AUTH"
    /\ resp'.code = "PAM_CONV_AGAIN"
    /\ resp'.reason = Head(att[thread_state].outq)
    /\ resp'.reason.n = 1
    /\ state'.stage = "AUTH"

\* the terminal success
SuccessReturned ==
    /\ resp'.stage = "AUTH"
    /\ resp'.code = "PAM_SUCCESS"
    /\ resp'.user_info
    /\ state'.stage = "LOGIN"
    /\ ctx' = thread_state
    /\ ctx' # 0

\* C5 as stated: when the backend has emitted its prompt batch, auth_init
\* returns CONV_AGAIN with that batch and the stage is AUTH; when the backend
\* has accepted, auth_continue returns PAM_SUCCESS tagged AUTH with user_info,
\* the stage is LOGIN and ctx is the backend context
C5_AsStated ==
    [][/\ (StepReturns("auth_init") /\ att[thread_state].outq # <<>>)
            => FirstBatchReturned
       /\ (StepReturns("auth_continue") /\ att[thread_state].outcome = "accept")
            => SuccessReturned]_vars

\* C5 amended: the same, for steps that do not run into the authentication
\* timeout
C5_WithinTimeout ==
    [][/\ (StepReturns("auth_init") /\ pc = "wait" /\ att[thread_state].outq # <<>>)
            => FirstBatchReturned
       /\ (StepReturns("auth_continue") /\ pc = "wait"
             /\ att[thread_state].outcome = "accept")
            => SuccessReturned]_vars

C5_Witness ==
    /\ pc = "idle"
    /\ op = "auth_continue"
    /\ resp.code = "PAM_SUCCESS"
    /\ state.stage = "LOGIN"
    /\ ctx # 0

\* the terminal failure carrying the backend's code, and the teardown
FailureReturned ==
    /\ resp'.stage = "AUTH"
    /\ resp'.code = att[thread_state].outcome
    /\ ~resp'.user_info
    /\ state'.stage = "START"
    /\ ctx' = 0
    /\ thread_state' = 0
    /\ auth_thread' = 0

\* C6 as stated: when the backend has rejected with a PAMError, the step
\* returns a response tagged AUTH with exactly that code and no user_info,
\* and the stage is START, ctx None and no attempt outstanding
C6_AsStated ==
    [][((StepReturns("auth_init") \/ StepReturns("auth_continue"))
          /\ att[thread_state].outcome \in PAMErrors)
         => FailureReturned]_vars

\* C6 amended: the same, for steps that do not run into the authentication
\* timeout
C6_WithinTimeout ==
    [][((StepReturns("auth_init") \/ StepReturns("auth_continue"))
          /\ pc = "wait" /\ att[thread_state].outcome \in PAMErrors)
         => FailureReturned]_vars

C6_Witness ==
    /\ pc = "idle"
    /\ op = "auth_continue"
    /\ resp.code = "PAM_AUTH_ERR"
    /\ state.stage = "START"
    /\ thread_state = 0

\* the timeout branch of auth_init returns
TimeoutReturns == StepReturns("auth_init") /\ pc = "join" /\ joinFor = "timeout"

\* the timeout response is returned and the attempt torn down
TimeoutTornDown ==
    /\ resp'.code = "PAM_SYSTEM_ERR"
    /\ resp'.stage = "AUTH"
    /\ raised' = None
    /\ state'.stage = "START"
    /\ ctx' = 0
    /\ thread_state' = 0
    /\ auth_thread' = 0

\* C7 as stated: a timeout of auth_init returns PAM_SYSTEM_ERR, resets the
\* stage to START with the attempt torn down, and the worker has ended
C7_AsStated ==
    [][TimeoutReturns =>
         /\ TimeoutTornDown
         /\ att'[thread_state].wpc \in {"none", "exited"}]_vars

\* C7 amended: ... and the worker has ended or, the join having timed out, is
\* left running with done_event set and both queues shut down
C7_WorkerEndedOrCancelled ==
    [][TimeoutReturns =>
         /\ TimeoutTornDown
         /\ \/ att'[thread_state].wpc \in {"none", "exited"}
            \/ att'[thread_state].done /\ att'[thread_state].shut]_vars

C7_Witness ==
    /\ pc = "idle"
    /\ op = "auth_init"
    /\ resp.code = "PAM_SYSTEM_ERR"
    /\ resp.reason.kind = "timeout"
    /\ state.stage = "START"
    /\ \E i \in Attempts : is_alive(i) /\ att[i].done

\* C8: end() never raises and leaves stage START, ctx None, login_at None, no
\* ConversationThreadState and no worker handle, the service name as it was;
\* an end() right after an end() changes nothing
C8_End ==
    [][(op' = "end" /\ pc' = "idle") =>
         /\ raised' = None
         /\ state'.stage = "START"
         /\ state'.login_at = None
         /\ state'.service = state.service
         /\ ctx' = 0
         /\ thread_state' = 0
         /\ auth_thread' = 0
         /\ (op = "end" /\ pc = "idle")
              => UNCHANGED <<state, ctx, thread_state, auth_thread>>]_vars

C8_Witness ==
    /\ op = "end"
    /\ pc = "idle"
    /\ state.service = "sshd"
    /\ \E i \in Attempts : is_alive(i)

\* C9: account_management, open_session, login outside LOGIN and
\* close_session, logout outside LOGOUT raise the stage error, call nothing
\* of the backend and change nothing
C9_WrongStage ==
    [][(\/ (AccountManagement \/ OpenSession \/ Login) /\ state.stage # "LOGIN"
        \/ (CloseSession \/ Logout) /\ state.stage # "LOGOUT") =>
         /\ raised' \in {"stage:LOGIN", "stage:LOGOUT"}
         /\ called' = None
         /\ UNCHANGED session]_vars

C9_Witness == raised = "stage:LOGOUT" /\ state.stage = "LOGIN" /\ pc = "idle"

\* C10 as stated: after any operation returns a failure response the stage is
\* START
C10_AsStated ==
    (pc = "idle" /\ raised = None /\ Failure(resp)) => state.stage = "START"

\* C10 amended: after auth_init, auth_continue, login or logout returns a
\* failure response the stage is START; a failure response of
\* account_management or open_session leaves the stage LOGIN, one of
\* close_session leaves it LOGOUT
C10_FailureResets ==
    (pc = "idle" /\ raised = None /\ Failure(resp)) =>
        /\ op \in {"auth_init", "auth_continue", "login", "logout"}
             => state.stage = "START"
        /\ op \in {"account_management", "open_session"}
             => state.stage = "LOGIN"
        /\ op = "close_session" => state.stage = "LOGOUT"

C10_Witness ==
    /\ pc = "idle"
    /\ op = "login"
    /\ Failure(resp)
    /\ state.stage = "START"

\* the backend's open_session / close_session is invoked by this step
InvokesOpen == (OpenSession \/ Login) /\ called' = "open_session"
InvokesClose == (CloseSession \/ Logout) /\ called' = "close_session"

\* C11 as stated: the backend's open_session is invoked only after
\* authentication has succeeded and account_management() has succeeded since
\* then; the backend's close_session only after a successful session open
C11_AsStated ==
    [][/\ InvokesOpen => (hist.auth /\ hist.acct)
       /\ InvokesClose => hist.opened]_vars

\* C11 amended: the backend's open_session is invoked only after
\* authentication has succeeded, whether or not account_management() has run;
\* the backend's close_session only after a successful session open
C11_LifecycleOrder ==
    [][/\ InvokesOpen => hist.auth
       /\ InvokesClose => (hist.auth /\ hist.opened)]_vars

C11_Witness ==
    /\ called = "close_session"
    /\ op = "close_session"
    /\ resp.code = "PAM_SUCCESS"
    /\ hist.auth /\ hist.opened /\ ~hist.acct

\* the channels of attempt i alternate: each holds at most one batch, never
\* both at once, and a prompt batch on the prompts channel is the one the
\* worker is blocked on, waiting for its answer
Alternates(i) ==
    /\ Len(att[i].outq) <= 1
    /\ Len(att[i].inq) <= 1
    /\ att[i].outq # <<>> =>
          (att[i].inq = <<>> /\ att[i].wpc \in {"conv", "get"})
    /\ att[i].inq # <<>> => att[i].wpc \in {"conv", "get"}

\* C12 as stated: within every attempt prompts and responses strictly
\* alternate: the worker emits no prompt batch before the previous one has been
\* answered, and neither channel ever holds more than one batch
C12_AsStated == \A i \in Attempts : att[i].wpc # "none" => Alternates(i)

\* C12 amended: the same for every attempt that has not been cancelled (its
\* completion flag is not set)
C12_AlternateUntilCancelled ==
    \A i \in Attempts : (att[i].wpc # "none" /\ ~att[i].done) => Alternates(i)

C12_Witness ==
    /\ thread_state # 0
    /\ ~att[thread_state].done
    /\ att[thread_state].nprompts = 2
    /\ Len(att[thread_state].outq) = 1
    /\ pc = "wait"
    /\ op = "auth_continue"

\* a lifecycle operation is called in its required stage
InRequiredStage ==
    \/ (AccountManagement \/ OpenSession \/ Login) /\ state.stage = "LOGIN"
    \/ (CloseSession \/ Logout) /\ state.stage = "LOGOUT"

\* C13 as stated: account_management, open_session, close_session, login and
\* logout, called in their required stage, never raise: every failure of the
\* backend call, a refused open_session or close_session included, comes back
\* as a response with a failure code
C13_AsStated ==
    [][InRequiredStage => (raised' = None /\ resp' # NoResp)]_vars

\* the second open_session() in stage LOGIN has raised the backend's ValueError
C13_Witness ==
    /\ op = "open_session"
    /\ raised = "ValueError"
    /\ called = "open_session"
    /\ state.stage = "LOGIN"
    /\ sessOpen
    /\ hist.opened

\* the orchestrator has discarded the ConversationThreadState of attempt i
Discarded(i) == att[i].wpc # "none" /\ thread_state # i

\* C14 as stated: whenever the orchestrator has discarded an attempt's
\* ConversationThreadState, that attempt's worker is no longer running
C14_AsStated == \A i \in Attempts : Discarded(i) => ~is_alive(i)

\* C14 amended: the ConversationThreadState of a running worker is discarded
\* only by an end() that has waited in join(timeout=2.0), and a worker that
\* runs on after the discard has done_event set and both queues shut down
C14_JoinedOrCancelled ==
    /\ [](\A i \in Attempts :
            (Discarded(i) /\ is_alive(i)) =>
                (att[i].done /\ att[i].shut /\ auth_thread # i))
    /\ [][(thread_state # 0 /\ thread_state' # thread_state
              /\ is_alive(thread_state)) => pc = "join"]_vars

C14_Witness ==
    \E i \in Attempts :
        /\ Discarded(i)
        /\ att[i].wpc = "get"
        /\ att[i].shut
        /\ thread_state # 0

\* C15 as stated: every batch auth_continue puts on input_queue has the length
\* of the prompt batch last returned to the caller as PAM_CONV_AGAIN (the
\* batch the conversation callback is waiting on)
C15_AsStated ==
    [][\A l \in 0..MaxLen :
         (AuthContinue([len |-> l]) /\ pc' = "wait")
            => l = att[thread_state].pend]_vars

\* a batch of the wrong length is on input_queue
C15_Witness ==
    /\ op = "auth_continue"
    /\ pc = "wait"
    /\ att[thread_state].wpc \in {"conv", "get"}
    /\ att[thread_state].inq # <<>>
    /\ Head(att[thread_state].inq).len # att[thread_state].pend

\* the step of auth_init / auth_continue that returns to the caller, with the
\* backend having refused a response batch of the wrong length
ContractViolationReturns ==
    /\ StepReturns("auth_init") \/ StepReturns("auth_continue")
    /\ att[thread_state].outcome = "bad_reply"

\* C16 as stated: a conversation contract violation is raised to the caller of
\* auth_init / auth_continue, not returned as a response
C16_AsStated ==
    [][ContractViolationReturns => (raised' # None /\ resp' = NoResp)]_vars

\* C16 amended: a conversation contract violation is not raised: it is
\* returned as a response tagged AUTH with code PAM_SYSTEM_ERR and no
\* user_info, and the session is reset to START
C16_ReturnedAsSystemErr ==
    [][ContractViolationReturns =>
         /\ raised' = None
         /\ resp'.stage = "AUTH"
         /\ resp'.code = "PAM_SYSTEM_ERR"
         /\ ~resp'.user_info
         /\ state'.stage = "START"
         /\ thread_state' = 0]_vars

C16_Witness ==
    /\ pc = "idle"
    /\ op = "auth_continue"
    /\ raised = None
    /\ resp.code = "PAM_SYSTEM_ERR"
    /\ resp.reason.kind = "error"
    /\ state.stage = "START"

\* auth_init / auth_continue returns the terminal response of an attempt that
\* was neither timed out nor cancelled and whose response batches all had the
\* length of their prompt batch
TerminalReturns ==
    /\ StepReturns("auth_init") \/ StepReturns("auth_continue")
    /\ pc = "wait"
    /\ att[thread_state].done
    /\ att[thread_state].outcome # "bad_reply"

\* C17: such a terminal response is PAM_SUCCESS exactly when the backend's
\* authenticate call returned normally, and when the backend raised a
\* PAMError it carries exactly that error's code
C17_BackendDecides ==
    [][TerminalReturns =>
         /\ (resp'.code = "PAM_SUCCESS") <=> (att[thread_state].outcome = "accept")
         /\ att[thread_state].outcome \in PAMErrors
               => resp'.code = att[thread_state].outcome]_vars

C17_Witness ==
    /\ pc = "idle"
    /\ op = "auth_continue"
    /\ raised = None
    /\ resp.code = "PAM_CONV_ERR"
    /\ resp.stage = "AUTH"

\* login() in stage LOGIN returns success
LoginSucceeds ==
    Login /\ state.stage = "LOGIN" /\ raised' = None /\ resp'.code = "PAM_SUCCESS"

\* logout() right after the successful login(), or any logout() that returns
LogoutAfterLogin ==
    Logout /\ state.stage = "LOGOUT" /\ (op = "login" \/ raised' = None)

\* C18: login_at is set exactly while the stage is LOGOUT; it becomes set only
\* by a successful login(), which also moves the stage to LOGOUT; the
\* logout() that follows returns and resets the whole Session State, so that
\* login_at is None and the stage START
C18_LoginAt ==
    /\ [](state.login_at # None <=> state.stage = "LOGOUT")
    /\ [][LoginSucceeds =>
             (state'.login_at # None /\ state'.stage = "LOGOUT")]_vars
    /\ [][(state.login_at = None /\ state'.login_at # None) => LoginSucceeds]_vars
    /\ [][LogoutAfterLogin =>
             /\ raised' = None
             /\ state' = AuthenticatorState(state.service)
             /\ ctx' = 0]_vars

C18_Witness ==
    /\ op = "logout"
    /\ called = "close_session"
    /\ raised = None
    /\ state.login_at = None
    /\ state.stage = "START"

\* login() in stage LOGIN, and the backend's open_session fails
LoginOpenFails ==
    /\ Login
    /\ state.stage = "LOGIN"
    /\ called' = "open_session"
    /\ resp'.code # "PAM_SUCCESS"

\* C19 as stated: login() in stage LOGIN whose session open fails at the
\* backend returns a response with the backend's failure code, and afterwards
\* the stage is START, login_at None and ctx None
C19_AsStated ==
    [][LoginOpenFails =>
         /\ raised' = None
         /\ Failure(resp')
         /\ state'.stage = "START"
         /\ state'.login_at = None
         /\ ctx' = 0]_vars

\* login() has raised the backend's ValueError and torn nothing down
C19_Witness ==
    /\ op = "login"
    /\ raised = "ValueError"
    /\ called = "open_session"
    /\ state.stage = "LOGIN"
    /\ ctx # 0
    /\ hist.acct

\* logout() in stage LOGOUT
LogoutInStage == Logout /\ state.stage = "LOGOUT"

\* C20 as stated: logout() in stage LOGOUT, whether the backend's close
\* succeeds or fails, returns a response tagged LOGOUT with the close
\* outcome's code, and afterwards the stage is START, ctx None and login_at
\* None
C20_AsStated ==
    [][LogoutInStage =>
         /\ raised' = None
         /\ resp'.stage = "LOGOUT"
         /\ resp'.code \in {"PAM_SUCCESS"} \cup PAMErrors
         /\ state'.stage = "START"
         /\ state'.login_at = None
         /\ ctx' = 0]_vars

\* logout() has raised the backend's ValueError and torn nothing down
C20_Witness ==
    /\ op = "logout"
    /\ raised = "ValueError"
    /\ called = "close_session"
    /\ state.stage = "LOGOUT"
    /\ state.login_at # None
    /\ ctx # 0
    /\ ~sessOpen

\* C21: account_management() in stage LOGIN returns a response tagged AUTH
\* with the outcome code of the backend's acct_mgmt, and leaves the stage
\* LOGIN and ctx, the ConversationThreadState and the rest of the session
\* unchanged, whether the check succeeds or fails
C21_AccountManagementFrame ==
    [][(AccountManagement /\ state.stage = "LOGIN") =>
         /\ raised' = None
         /\ called' = "acct_mgmt"
         /\ resp'.stage = "AUTH"
         /\ resp'.code \in {"PAM_SUCCESS"} \cup PAMErrors
         /\ state'.stage = "LOGIN"
         /\ UNCHANGED session]_vars

C21_Witness ==
    /\ op = "account_management"
    /\ called = "acct_mgmt"
    /\ Failure(resp)
    /\ state.stage = "LOGIN"
    /\ ctx # 0

\* C22 as stated: once an authentication step has returned the terminal
\* success (the stage is LOGIN or LOGOUT), the Session State holds the account
\* payload; a reset Session State holds none
C22_AsStated ==
    /\ state.stage \in {"LOGIN", "LOGOUT"} => state.passwd # None
    /\ state.stage = "START" => state.passwd = None

\* the terminal success has been returned with user_info and state.passwd is
\* still None
C22_Witness ==
    /\ pc = "idle"
    /\ op = "auth_continue"
    /\ resp.code = "PAM_SUCCESS"
    /\ resp.user_info
    /\ state.stage = "LOGIN"
    /\ state.passwd = None

\* C23: every call of auth_init(), auth_continue() and end() returns, whatever
\* the worker does or fails to do; the end() that has waited in join goes on
\* when the grace period is over, resets the session and leaves a worker that
\* is still running as it is
C23_CallerNeverBlocks ==
    /\ (pc \in {"wait", "join"}) ~> (pc \in {"idle", "deleted"})
    /\ [][(pc = "join" /\ pc' # "join") =>
             /\ state'.stage = "START"
             /\ ctx' = 0
             /\ thread_state' = 0
             /\ auth_thread' = 0
             /\ is_alive(thread_state) =>
                   att'[thread_state].wpc = att[thread_state].wpc]_vars

C23_Witness ==
    /\ pc = "idle"
    /\ op = "auth_init"
    /\ resp = TimeoutResponse
    /\ thread_state = 0
    /\ \E i \in Attempts : att[i].wpc = "ctx" /\ att[i].nprompts = 0

\* the session is torn down: fresh Session State, no ctx, no attempt
TornDown ==
    /\ state'.stage = "START"
    /\ state'.login_at = None
    /\ ctx' = 0
    /\ thread_state' = 0
    /\ auth_thread' = 0

C25_DirectAuthenticator ==
    /\ [](kind = "SimpleAuthenticator" =>
             /\ thread_state = 0
             /\ auth_thread = 0
             /\ pc \in {"idle", "deleted"}
             /\ \A i \in Attempts : att[i] = NotCreated)
    /\ [][SimpleAuthInit =>
             /\ resp'.code # "PAM_CONV_AGAIN"
             /\ raised' = None =>
                   /\ resp'.stage = "AUTH"
                   /\ resp'.code \in {"PAM_SUCCESS", "PAM_SYSTEM_ERR"} \cup PAMErrors
                   /\ (resp'.code = "PAM_SUCCESS") <=> (state'.stage = "LOGIN")]_vars
    /\ [][SimpleAuthContinue =>
             (raised' # None /\ resp' = NoResp /\ UNCHANGED session)]_vars

C25_Witness ==
    /\ kind = "SimpleAuthenticator"
    /\ op = "auth_init"
    /\ raised = None
    /\ resp.code = "PAM_AUTH_ERR"
    /\ state.stage = "START"

\* C26: when the attempt is cancelled (done_event set) while _conv_callback
\* waits for a response batch that was never supplied, the callback's next
\* steps either keep polling or return [None] * len(messages), a batch the
\* backend accepts as one answer per prompt; the callback never raises
CancelledWhileWaiting(i) ==
    /\ att[i].wpc \in {"conv", "get"}
    /\ att[i].done
    /\ att[i].inq = <<>>

C26_AsStated ==
    [][\A i \in Attempts :
         (Worker(i) /\ CancelledWhileWaiting(i)) =>
            \/ att'[i].wpc = "conv"
            \/ att'[i].wpc = "auth" /\ att'[i].ans = "ok" /\ att'[i].exception = None]_vars

\* the callback is inside input_queue.get() of a queue end() has shut down
C26_Witness ==
    \E i \in Attempts :
        /\ CancelledWhileWaiting(i)
        /\ att[i].wpc = "get"
        /\ att[i].shut
        /\ thread_state # i

\* a step of the authentication returns a terminal response to the caller
TerminalConsumed ==
    /\ StepReturns("auth_init") \/ StepReturns("auth_continue")
    /\ raised' = None
    /\ resp'.code \notin {"none", "PAM_CONV_AGAIN"}

\* C27 as stated: once a terminal response (success, failure or timeout) has
\* been returned, the orchestrator holds neither the attempt's
\* ConversationThreadState nor its worker handle
C27_AsStated ==
    [][TerminalConsumed => (thread_state' = 0 /\ auth_thread' = 0)]_vars

\* C27 amended: after a terminal failure or timeout the orchestrator holds
\* neither _thread_state nor _auth_thread; after a terminal success it keeps
\* both (the worker has ended) for as long as the session is authenticated,
\* that is until end()
C27_DiscardedUnlessSuccess ==
    /\ [][TerminalConsumed =>
             IF resp'.code = "PAM_SUCCESS"
             THEN /\ thread_state' = thread_state
                  /\ auth_thread' = auth_thread
                  /\ thread_state' # 0
                  /\ auth_thread' = thread_state'
                  /\ att'[thread_state'].wpc = "exited"
             ELSE thread_state' = 0 /\ auth_thread' = 0]_vars
    /\ []((kind = "UserPamAuthenticator" /\ state.stage \in {"LOGIN", "LOGOUT"}) =>
             (thread_state # 0 /\ auth_thread = thread_state))
    /\ []((pc = "idle" /\ state.stage = "START") =>
             (thread_state = 0 /\ auth_thread = 0))

\* a timeout response has been returned and the bridge is gone
C27_Witness ==
    /\ pc = "idle"
    /\ op \in {"auth_init", "auth_continue"}
    /\ resp = TimeoutResponse
    /\ thread_state = 0
    /\ auth_thread = 0
    /\ \E i \in Attempts : is_alive(i)

\* exactly one of thread_state.exception and thread_state.pam_context is set
OneOutcomeSlot(r) == (r.exception # None) # r.pam_context

\* C28: the worker stores its outcome, then sets done_event, and that is its
\* last action: an ended worker of the current attempt has done_event set and
\* exactly one outcome slot filled; the worker sets the flag only in its
\* finally clause, with the outcome already stored and left as it is; an
\* ended worker never runs again, its flag stays set and nothing is added to
\* output_queue
C28_OutcomeThenFlag ==
    /\ [](\A i \in Attempts :
            (thread_state = i /\ att[i].wpc \in {"fin", "exited"}) =>
                /\ OneOutcomeSlot(att[i])
                /\ att[i].wpc = "exited" => att[i].done)
    /\ [][\A i \in Attempts :
            (att[i].wpc # "exited" /\ att'[i].wpc = "exited") =>
                /\ WFinally(i)
                /\ att[i].wpc = "fin"
                /\ OneOutcomeSlot(att[i])
                /\ att'[i] = [att[i] EXCEPT !.done = TRUE, !.wpc = "exited"]]_vars
    /\ [][\A i \in Attempts :
            (Worker(i) /\ ~att[i].done /\ att'[i].done) => WFinally(i)]_vars
    /\ [][\A i \in Attempts :
            att[i].wpc = "exited" =>
                /\ ~Worker(i)
                /\ \/ att'[i] = NotCreated
                   \/ att'[i].wpc = "exited" /\ att'[i].done
                                             /\ Len(att'[i].outq) <= Len(att[i].outq)]_vars

\* the worker has ended with a backend error and the orchestrator, still
\* waiting, is about to observe the flag
C28_Witness ==
    /\ pc = "wait"
    /\ thread_state # 0
    /\ att[thread_state].wpc = "exited"
    /\ att[thread_state].done
    /\ att[thread_state].exception \in PAMErrors
    /\ ~att[thread_state].pam_context
    /\ att[thread_state].nprompts > 0

\* auth_init() is called right after a step has returned the timeout response
InitAfterTimeout ==
    /\ AuthInit
    /\ op \in {"auth_init", "auth_continue"}
    /\ resp = TimeoutResponse

\* C29 as stated: after the timeout response a new auth_init() is refused
\* unless the caller has called end() first
C29_AsStated == [][InitAfterTimeout => raised' # None]_vars

\* C29 amended: the timeout branch has already run end(), so the auth_init()
\* that follows the timeout response directly is accepted: it does not raise,
\* creates a new ConversationThreadState with its worker and moves to AUTH
C29_AcceptedAfterTimeout ==
    /\ [][InitAfterTimeout =>
             /\ raised' = None
             /\ thread_state' # 0
             /\ auth_thread' = thread_state'
             /\ att'[thread_state'] = ConversationThreadState
             /\ state'.stage = "AUTH"
             /\ pc' = "wait"]_vars
    /\ []((pc = "idle" /\ resp = TimeoutResponse) =>
             (thread_state = 0 /\ auth_thread = 0 /\ state.stage = "START"))

\* the timeout response has just been returned while the timed-out worker is
\* still running, and the auth_init() called now starts a new attempt
C29_Witness ==
    /\ pc = "idle"
    /\ op = "auth_init"
    /\ resp = TimeoutResponse
    /\ state.stage = "START"
    /\ \E i \in Attempts : is_alive(i) /\ att[i].wpc = "auth"
    /\ ENABLED (InitAfterTimeout /\ raised' = None /\ pc' = "wait")

\* auth_init() is called right after a step has returned a terminal failure
InitAfterFailure ==
    /\ AuthInit
    /\ op \in {"auth_init", "auth_continue"}
    /\ Failure(resp)
    /\ resp.reason.kind = "error"

\* C30: the auth_init() that follows a terminal failure response directly,
\* with no end() in between, does not raise; it creates a new
\* ConversationThreadState (empty queues that are not shut down, done_event
\* unset, no outcome stored) where there was none, binds exactly one new
\* worker to it, leaves every other attempt's object alone and moves to AUTH;
\* after the failure the orchestrator holds nothing of the failed attempt
C30_FreshAfterFailure ==
    /\ [][InitAfterFailure =>
             /\ raised' = None
             /\ state'.stage = "AUTH"
             /\ pc' = "wait"
             /\ thread_state' # 0
             /\ auth_thread' = thread_state'
             /\ att[thread_state'].wpc = "none"
             /\ att'[thread_state'].wpc = "ctx"
             /\ ~att'[thread_state'].done
             /\ ~att'[thread_state'].shut
             /\ att'[thread_state'].inq = <<>>
             /\ att'[thread_state'].outq = <<>>
             /\ att'[thread_state'].exception = None
             /\ ~att'[thread_state'].pam_context
             /\ \A j \in Attempts \ {thread_state'} : att'[j] = att[j]]_vars
    /\ []((pc = "idle" /\ op \in {"auth_init", "auth_continue"} /\ Failure(resp)) =>
             /\ thread_state = 0
             /\ auth_thread = 0
             /\ ctx = 0
             /\ state.stage = "START"
             /\ \A i \in Attempts : ~is_alive(i) => att[i] = NotCreated)

\* a step has just returned a backend failure after a prompt round, and the
\* auth_init() called now starts a new attempt
C30_Witness ==
    /\ pc = "idle"
    /\ op = "auth_continue"
    /\ resp = FailureResponse("PAM_AUTH_ERR")
    /\ state.stage = "START"
    /\ thread_state = 0
    /\ ENABLED (InitAfterFailure /\ raised' = None /\ pc' = "wait")

\* a step reads the outcome of a worker that ended with a failure
WorkerFailureRead ==
    /\ StepReturns("auth_init") \/ StepReturns("auth_continue")
    /\ pc = "wait"
    /\ att[thread_state].outcome \notin {"none", "accept"}

CancelledInWait(i) == att[i].done /\ att[i].wpc \in {"conv", "get"}

\* C32: a cancelled worker that waits in the conversation callback leaves
\* the wait, whether or not a response is ever supplied, and every cancelled
\* worker eventually ends
C32_CancelledWorkerEnds ==
    /\ \A i \in Attempts : CancelledInWait(i) ~> (att[i].wpc \notin {"conv", "get"})
    /\ \A i \in Attempts : (att[i].done /\ is_alive(i)) ~> ~is_alive(i)

\* the first step of an attempt has timed out and, before the join is over,
\* the callback has returned without any response having been supplied
C32_Witness ==
    /\ pc = "join"
    /\ op = "auth_init"
    /\ joinFor = "timeout"
    /\ att[thread_state].done
    /\ att[thread_state].wpc = "auth"
    /\ att[thread_state].ans = "ok"
    /\ att[thread_state].inq = <<>>

\* a direct authentication returns (auth_init or authenticate_simple)
DirectReturns(o) ==
    /\ kind = "SimpleAuthenticator"
    /\ DirectAuth(o, o = "authenticate_simple")
    /\ op' = o
    /\ raised' = None

\* C33: SimpleAuthenticator.auth_init() raises outside stage START and
\* changes nothing; when it returns, either the backend accepted (PAM_SUCCESS,
\* ctx set, stage START -> LOGIN) or it did not (the PAMError's code or
\* PAM_SYSTEM_ERR, stage still START, ctx still null); the stage of a
\* SimpleAuthenticator is never AUTH; authenticate_simple() returns True
\* exactly when the backend accepted
C33_DirectAuthInit ==
    /\ [](kind = "SimpleAuthenticator" => state.stage # "AUTH")
    /\ [][(SimpleAuthInit /\ state.stage # "START") =>
             (raised' = StageError("START") /\ UNCHANGED session)]_vars
    /\ [][DirectReturns("auth_init") =>
             /\ state.stage = "START"
             /\ called' = "authenticate"
             /\ \/ /\ resp' = SuccessResponse
                   /\ ctx' # 0
                   /\ state'.stage = "LOGIN"
                \/ /\ resp'.stage = "AUTH"
                   /\ resp'.code \in PAMErrors \cup {"PAM_SYSTEM_ERR"}
                   /\ ~resp'.user_info
                   /\ ctx' = 0
                   /\ state'.stage = "START"]_vars
    /\ [][DirectReturns("authenticate_simple") =>
             /\ resp'.stage = "bool"
             /\ resp'.user_info <=> (state'.stage = "LOGIN" /\ ctx' # 0)
             /\ ~resp'.user_info <=> (state'.stage = "START" /\ ctx' = 0)]_vars

\* authenticate_simple() has returned True: the backend accepted
C33_Witness ==
    /\ kind = "SimpleAuthenticator"
    /\ op = "authenticate_simple"
    /\ raised = None
    /\ resp = BoolResult(TRUE)
    /\ state.stage = "LOGIN"
    /\ ctx = DirectContext

\* attempt i is the orchestrator's current attempt and neither end() nor a
\* timeout has cancelled it
Uncancelled(i) == thread_state = i /\ pc \in {"idle", "wait"}

\* C34: in an attempt that is neither timed out nor cancelled, output_queue
\* holds nothing or exactly the batch emitted last, with the worker waiting
\* for its answer; a batch leaves output_queue only as the reason of the
\* PAM_CONV_AGAIN response of the step that takes it; the next batch is emitted
\* only after that, during the auth_continue that answers it; and the step
\* that returns the terminal response finds output_queue empty
C34_NoBatchLost ==
    /\ [](\A i \in Attempts :
            Uncancelled(i) =>
                /\ \/ att[i].outq = <<>>
                   \/ /\ att[i].outq = <<Batch(i, att[i].nprompts, att[i].pend)>>
                      /\ att[i].wpc \in {"conv", "get"}
                      /\ att[i].inq = <<>>
                      /\ pc = "wait"
                /\ att[i].wpc \in {"fin", "exited"} => att[i].outq = <<>>)
    /\ [][\A i \in Attempts :
            (Uncancelled(i) /\ att[i].outq # <<>> /\ att'[i].outq # att[i].outq) =>
                /\ pc = "wait"
                /\ pc' = "idle"
                /\ raised' = None
                /\ resp' = ConvAgainResponse(Head(att[i].outq))
                /\ resp'.reason.n = att[i].nprompts
                /\ att'[i].outq = <<>>
                /\ thread_state' = i]_vars
    /\ [][\A i \in Attempts :
            (Uncancelled(i) /\ ~att[i].done /\ att[i].wpc # "none"
               /\ att'[i].nprompts = att[i].nprompts + 1) =>
                /\ att[i].outq = <<>>
                /\ att'[i].outq = <<Batch(i, att[i].nprompts + 1, att'[i].pend)>>
                /\ pc = "wait"
                /\ att[i].nprompts > 0 => op = "auth_continue"]_vars
    /\ [][((StepReturns("auth_init") \/ StepReturns("auth_continue"))
              /\ pc = "wait" /\ resp'.code # "PAM_CONV_AGAIN") =>
                att[thread_state].outq = <<>>]_vars

\* the terminal success has been returned after both prompt batches of the
\* attempt were handed to the caller
C34_Witness ==
    /\ pc = "idle"
    /\ op = "auth_continue"
    /\ resp = SuccessResponse
    /\ thread_state # 0
    /\ att[thread_state].nprompts = MaxPrompts
    /\ att[thread_state].outq = <<>>

\* C35: a worker the orchestrator has abandoned cannot affect the session:
\* its steps change nothing but its own ConversationThreadState, whose queues
\* stay empty (no response of a later attempt reaches it, and it emits
\* nothing); every prompt batch a step returns was emitted by the current
\* attempt's worker; the orchestrator's ctx, when it is set by a step, is the
\* context of the current attempt
C35_AbandonedWorkerIsolated ==
    /\ [][\A i \in Attempts :
            (Discarded(i) /\ Worker(i)) =>
                /\ UNCHANGED <<state, ctx, thread_state, auth_thread, sessOpen,
                               pc, op, resp, raised, hist>>
                /\ \A j \in Attempts \ {i} : att'[j] = att[j]]_vars
    /\ [](\A i \in Attempts :
            Discarded(i) => (att[i].inq = <<>> /\ att[i].outq = <<>>))
    /\ [](\A i \in Attempts :
            \A k \in 1..Len(att[i].outq) : att[i].outq[k].a = i)
    /\ [][(pc = "wait" /\ pc' = "idle" /\ resp'.code = "PAM_CONV_AGAIN") =>
             /\ resp'.reason.a = thread_state
             /\ thread_state' = thread_state
             /\ ~Discarded(thread_state)]_vars
    /\ [][(ctx' # ctx /\ ctx' # 0 /\ kind = "UserPamAuthenticator") =>
             /\ ctx' = thread_state
             /\ att[thread_state].pam_context
             /\ pc = "wait"]_vars

\* a later attempt has had a prompt batch returned while the worker of an
\* abandoned attempt is still inside the backend call
C35_Witness ==
    /\ pc = "idle"
    /\ state.stage = "AUTH"
    /\ thread_state # 0
    /\ resp.code = "PAM_CONV_AGAIN"
    /\ resp.reason.a = thread_state
    /\ \E i \in Attempts :
          Discarded(i) /\ att[i].wpc = "auth" /\ att[i].shut /\ att[i].done

\* the orchestrator releases its backend context
ReleasesContext == ctx # 0 /\ ctx' = 0

\* C36 as stated: a context on which a session is open is released only by a
\* step that has called the backend's close_session first
C36_AsStated ==
    [][(ReleasesContext /\ sessOpen) => called' = "close_session"]_vars

\* a session is open on the context in stage LOGIN, where end() and the
\* finalizer release the context without calling close_session
C36_Witness ==
    /\ pc = "idle"
    /\ state.stage = "LOGIN"
    /\ ctx # 0
    /\ sessOpen
    /\ op = "open_session"
    /\ resp.code = "PAM_SUCCESS"
    /\ ENABLED (End /\ ReleasesContext /\ called' = None)
    /\ ENABLED (Del /\ ReleasesContext /\ called' = None)

\* C37: between public operations ctx is set exactly in the stages LOGIN and
\* LOGOUT, for both classes, and no operation ever raises the "No PAM context
\* available" RuntimeError
C37_ContextIffAuthenticated ==
    /\ pc = "idle" => ((ctx # 0) <=> (state.stage \in {"LOGIN", "LOGOUT"}))
    /\ raised # "no_ctx"

\* a UserPamAuthenticator between login() and logout(): ctx is the context
\* the attempt's worker stored
C37_Witness ==
    /\ kind = "UserPamAuthenticator"
    /\ pc = "idle"
    /\ op = "login"
    /\ state.stage = "LOGOUT"
    /\ ctx # 0
    /\ ctx = thread_state

\* the current attempt is outstanding and its worker waits for the answer to
\* a prompt batch that has been taken off output_queue and returned
BatchAwaitingAnswer ==
    /\ thread_state # 0
    /\ auth_thread = thread_state
    /\ ~att[thread_state].done
    /\ att[thread_state].wpc \in {"conv", "get"}
    /\ att[thread_state].nprompts > 0
    /\ att[thread_state].outq = <<>>
    /\ att[thread_state].inq = <<>>

\* C38 as stated: whenever the stage of a UserPamAuthenticator is AUTH an
\* attempt is outstanding with a returned, unanswered prompt batch, and
\* auth_continue never raises "No authentication in progress"
C38_AsStated ==
    /\ (kind = "UserPamAuthenticator" /\ state.stage = "AUTH") => BatchAwaitingAnswer
    /\ raised # "no_auth_in_progress"

\* C38 amended: the same between public operations; while auth_init or
\* auth_continue waits for the worker, or an end() joins it, the stage is
\* AUTH and the attempt is outstanding, but no returned batch need await an
\* answer
C38_BetweenOperations ==
    /\ (state.stage = "AUTH" /\ pc = "idle") =>
          (kind = "UserPamAuthenticator" /\ BatchAwaitingAnswer)
    /\ (state.stage = "AUTH" /\ pc # "idle") =>
          /\ pc \in {"wait", "join"}
          /\ pc = "wait" => op \in {"auth_init", "auth_continue"}
          /\ thread_state # 0
          /\ auth_thread = thread_state
    /\ raised # "no_auth_in_progress"

\* the second prompt batch has been returned and the caller has not answered
C38_Witness ==
    /\ pc = "idle"
    /\ state.stage = "AUTH"
    /\ op = "auth_continue"
    /\ resp.code = "PAM_CONV_AGAIN"
    /\ resp.reason.n = 2
    /\ BatchAwaitingAnswer

Next ==
    \/ AuthInit
    \/ \E l \in 0..MaxLen : AuthContinue([len |-> l])
    \/ WaitDone
    \/ WaitTimeout
    \/ WaitPrompt
    \/ End
    \/ EndJoin
    \/ AccountManagement
    \/ OpenSession
    \/ CloseSession
    \/ Login
    \/ Logout
    \/ Del
    \/ SimpleAuthInit
    \/ AuthenticateSimple
    \/ SimpleAuthContinue
    \/ \E i \in Attempts : Worker(i)

Spec == Init /\ [][Next]_vars

\* the caller's own steps are taken: the polling loop of _wait_for_auth_result
\* comes round to its checks, join(timeout=2.0) returns.  Nothing is assumed
\* of the worker.
FairSpec ==
    /\ Spec
    /\ WF_vars(WaitDone)
    /\ WF_vars(WaitTimeout)
    /\ WF_vars(EndJoin)

\* every worker thread keeps being scheduled: input_queue.get(timeout=1.0)
\* returns after a second at the latest, and the backend call returns once
\* its conversation function has returned
WorkerFairSpec ==
    /\ Spec
    /\ \A i \in Attempts : WF_vars(Worker(i))
====
